---- MODULE Spec2Model ----
(***************************************************************************)
(* Model of app.py, the "today's plan" dashboard: the holiday lookup, the  *)
(* weather payload extraction, the news extraction and one render cycle.   *)
(*                                                                         *)
(* Python values are modelled as follows.                                  *)
(*   - a dict is a record/function with a string domain; a missing key is  *)
(*     a string that is not in DOMAIN;                                     *)
(*   - a list is a sequence;                                               *)
(*   - None, str, float, date and datetime values are tagged records, so   *)
(*     that an optional value can be compared with None;                   *)
(*   - the text of a str is a sequence of one-character strings, the       *)
(*     ideographic space U+3000 being the character "U3000";               *)
(*   - a date is a day number, a time of day is a whole hour.              *)
(***************************************************************************)
EXTENDS Integers, Sequences, FiniteSets, TLC

VARIABLES
    pc,          \* position in the call or in main()
    today,       \* now.date() in JST, a day number
    holidays,    \* what fetch_holidays() returns
    info,        \* result of get_holiday_status
    forecast,    \* what fetch_forecast() returns
    overview,    \* what fetch_overview() returns
    weather,     \* result of get_weather_payload: a payload or a raised exception
    areas,       \* argument of find_area_block
    code,        \* argument of find_area_block
    found,       \* result of find_area_block
    feed,        \* the items of the RSS feed, root.findall("./channel/item")
    limit,       \* argument of fetch_news
    news_items,  \* result of fetch_news
    upstream,    \* per source, how its HTTP fetch ends in this render cycle
    cards        \* the cards rendered so far, in order

vars == <<pc, today, holidays, info, forecast, overview, weather,
          areas, code, found, feed, limit, news_items, upstream, cards>>

holidayVars == <<holidays, info>>
weatherVars == <<forecast, overview, weather>>
areaVars == <<areas, code, found>>
newsVars == <<feed, limit, news_items>>
mainVars == <<upstream, cards>>

---------------------------------------------------------------------------
(* Python values *)

None == [t |-> "None"]

Str(chars) == [t |-> "str", s |-> chars]

DateVal(d) == [t |-> "date", d |-> d]

---------------------------------------------------------------------------
(* Bounds *)

MaxDay == 5

Days == 1..MaxDay

---------------------------------------------------------------------------
(* Holiday status *)

\* sorted(holidays): the keys of the dict in increasing order.
RECURSIVE sorted(_)
sorted(S) ==
    IF S = {} THEN <<>>
    ELSE LET m == CHOOSE x \in S : \A y \in S : x <= y
         IN <<m>> \o sorted(S \ {m})

\* The scan with "target >= today" in place of "target > today".
RECURSIVE next_holiday_scan_ge(_, _, _)
next_holiday_scan_ge(keys, idx, day) ==
    IF idx > Len(keys) THEN None
    ELSE IF keys[idx] >= day THEN DateVal(keys[idx])
    ELSE next_holiday_scan_ge(keys, idx + 1, day)

\* The for loop of get_holiday_status, from position idx of the sorted keys.
RECURSIVE next_holiday_scan(_, _, _)
next_holiday_scan(keys, idx, day) ==
    IF idx > Len(keys) THEN None
    ELSE IF keys[idx] > day THEN DateVal(keys[idx])
    ELSE next_holiday_scan(keys, idx + 1, day)

get_holiday_status(hol, day) ==
    LET next_date == next_holiday_scan(sorted(DOMAIN hol), 1, day)
    IN [is_holiday |-> day \in DOMAIN hol,
        today_name |-> IF day \in DOMAIN hol THEN hol[day] ELSE None,
        next_date  |-> next_date,
        next_name  |-> IF next_date # None THEN hol[next_date.d] ELSE None]

\* The display name the holiday source gives for a date.
HolidayName(d) == Str(<<"h", ToString(d)>>)

\* fetch_holidays() on a successful response: a dict from dates to names.
HolidayIndexes == {[k \in K |-> HolidayName(k)] : K \in SUBSET Days}

InitHoliday ==
    /\ pc = "start"
    /\ today \in Days
    /\ holidays \in HolidayIndexes
    /\ info = None
    /\ forecast = None /\ overview = None /\ weather = None
    /\ areas = None /\ code = None /\ found = None
    /\ feed = None /\ limit = None /\ news_items = None
    /\ upstream = None /\ cards = None

CallGetHolidayStatus ==
    /\ pc = "start"
    /\ info' = get_holiday_status(holidays, today)
    /\ pc' = "done"
    /\ UNCHANGED <<today, holidays, weatherVars, areaVars, newsVars, mainVars>>

NextHoliday == CallGetHolidayStatus

SpecHoliday == InitHoliday /\ [][NextHoliday]_vars

FutureKeys == {k \in DOMAIN holidays : k > today}

\* C3: next_date is the minimum key of the holiday index strictly greater
\* than today, and is None exactly when the index has no key greater than
\* today; it is never <= today and no key lies between today and next_date.
C3_NextHolidayIsLeastFutureKey ==
    pc = "done" =>
        /\ (info.next_date = None) <=> (FutureKeys = {})
        /\ info.next_date # None =>
              /\ info.next_date.d \in DOMAIN holidays
              /\ info.next_date.d > today
              /\ \A k \in DOMAIN holidays : ~(today < k /\ k < info.next_date.d)

\* today is itself a holiday, a past key and two future keys exist.
C3_Witness ==
    /\ pc = "done"
    /\ today \in DOMAIN holidays
    /\ \E p \in DOMAIN holidays : p < today
    /\ Cardinality(FutureKeys) >= 2
    /\ info.next_date # None
    /\ info.next_date.d > today

---------------------------------------------------------------------------
(* Area-block lookup *)

FORECAST_AREA_CODE == "140010"

TEMP_AREA_CODE == "46106"

OTHER_AREA_CODE == "140020"

\* dict.get(key, default)
Get(d, key, default) == IF key \in DOMAIN d THEN d[key] ELSE default

\* area.get("area", {}).get("code") == code
area_code_is(area, c) ==
    LET a == Get(area, "area", <<>>)
    IN "code" \in DOMAIN a /\ a.code = c

\* The lookup that returns the first block when no block matches.
find_area_block_first(blocks, c) ==
    LET hit == {i \in 1..Len(blocks) : area_code_is(blocks[i], c)}
    IN IF hit # {} THEN blocks[CHOOSE i \in hit : \A j \in hit : i <= j]
       ELSE IF blocks # <<>> THEN blocks[1]
       ELSE None

RECURSIVE find_area_block(_, _)
find_area_block(blocks, c) ==
    IF blocks = <<>> THEN None
    ELSE IF area_code_is(Head(blocks), c) THEN Head(blocks)
    ELSE find_area_block(Tail(blocks), c)

MaxAreas == 3

AreaCodes == {FORECAST_AREA_CODE, TEMP_AREA_CODE, OTHER_AREA_CODE}

\* Area blocks of a series: with an area code and one of two value arrays,
\* with an "area" dict that has no code, and with no "area" key at all.
AreaBlocks ==
    {[area |-> [code |-> c], weathers |-> <<Str(<<w>>)>>] :
        c \in AreaCodes, w \in {"a", "b"}}
    \cup {[area |-> [name |-> "x"], weathers |-> <<Str(<<"a">>)>>]}
    \cup {[weathers |-> <<Str(<<"a">>)>>]}

InitArea ==
    /\ pc = "start"
    /\ \E n \in 0..MaxAreas : areas \in [1..n -> AreaBlocks]
    /\ code \in AreaCodes
    /\ found = None
    /\ today = None
    /\ holidays = None /\ info = None
    /\ forecast = None /\ overview = None /\ weather = None
    /\ feed = None /\ limit = None /\ news_items = None
    /\ upstream = None /\ cards = None

CallFindAreaBlock ==
    /\ pc = "start"
    /\ found' = find_area_block(areas, code)
    /\ pc' = "done"
    /\ UNCHANGED <<today, areas, code, holidayVars, weatherVars, newsVars, mainVars>>

NextArea == CallFindAreaBlock

SpecArea == InitArea /\ [][NextArea]_vars

\* The positions of areas whose block carries the target code.
MatchingPositions ==
    {i \in 1..Len(areas) :
        /\ "area" \in DOMAIN areas[i]
        /\ "code" \in DOMAIN areas[i].area
        /\ areas[i].area.code = code}

\* C9: find_area_block returns the block at the lowest position whose area
\* code equals the target, and None when no block has that code (also for an
\* empty sequence and for blocks without an area identifier).
C9_FirstMatchingBlockOrNone ==
    pc = "done" =>
        /\ MatchingPositions = {} => found = None
        /\ MatchingPositions # {} =>
              \E i \in MatchingPositions :
                  /\ \A j \in MatchingPositions : i <= j
                  /\ found = areas[i]

\* Two different blocks carry the target code and an earlier block does not.
C9_Witness ==
    /\ pc = "done"
    /\ \E i, j \in MatchingPositions : i < j /\ areas[i] # areas[j] /\ found = areas[i]
    /\ 1 \notin MatchingPositions

\* No block carries the target code although blocks exist, one of them
\* without an area identifier; the result is None.
C9_WitnessNone ==
    /\ pc = "done"
    /\ areas # <<>>
    /\ MatchingPositions = {}
    /\ \E i \in 1..Len(areas) : "area" \notin DOMAIN areas[i]
    /\ found = None

---------------------------------------------------------------------------
(* Text, numbers and times *)

\* A float; the model keeps whole degrees.
Float(n) == [t |-> "float", n |-> n]

\* A raised exception.
Raise(exc) == [t |-> "raise", exc |-> exc]

IsRaise(x) == "exc" \in DOMAIN x

\* The text of an ISO-8601 timestamp "<date>T<hour>:00:00<suffix>".
Iso(d, h, suffix) == [t |-> "str", date |-> d, hour |-> h, suffix |-> suffix]

\* Truth value of a str or None: "not value" is true of None and of "".
Truthy(v) == v # None /\ v # Str(<<>>)

\* str.strip() at the left end, then at the right end.
RECURSIVE lstrip(_)
lstrip(chars) ==
    IF chars # <<>> /\ Head(chars) = " " THEN lstrip(Tail(chars)) ELSE chars

RECURSIVE rstrip(_)
rstrip(chars) ==
    IF chars # <<>> /\ chars[Len(chars)] = " "
    THEN rstrip(SubSeq(chars, 1, Len(chars) - 1))
    ELSE chars

\* (value or "").replace("　", " ").strip()
normalize_text(value) ==
    LET chars == IF Truthy(value) THEN value.s ELSE <<>>
        replaced == [i \in 1..Len(chars) |->
                        IF chars[i] = "U3000" THEN " " ELSE chars[i]]
    IN Str(rstrip(lstrip(replaced)))

DigitValue ==
    [c \in {"0", "1", "2", "3", "4", "5", "6", "7", "8", "9"} |->
        CASE c = "0" -> 0 [] c = "1" -> 1 [] c = "2" -> 2 [] c = "3" -> 3
          [] c = "4" -> 4 [] c = "5" -> 5 [] c = "6" -> 6 [] c = "7" -> 7
          [] c = "8" -> 8 [] c = "9" -> 9]

\* The value of a non-empty run of decimal digits, acc being the value of
\* the digits already read.
RECURSIVE digits_value(_, _)
digits_value(chars, acc) ==
    IF chars = <<>> THEN acc
    ELSE digits_value(Tail(chars), 10 * acc + DigitValue[Head(chars)])

\* float(value) for None and for a str holding a whole number: TypeError for
\* None, ValueError for text that is not a number.
float(value) ==
    IF value = None THEN Raise("TypeError")
    ELSE LET chars == rstrip(lstrip(value.s))
             signed == chars # <<>> /\ Head(chars) \in {"-", "+"}
             body == IF signed THEN Tail(chars) ELSE chars
         IN IF body = <<>> \/ \E i \in 1..Len(body) : body[i] \notin DOMAIN DigitValue
            THEN Raise("ValueError")
            ELSE IF signed /\ Head(chars) = "-"
                 THEN Float(0 - digits_value(body, 0))
                 ELSE Float(digits_value(body, 0))

\* Hours east of UTC of JST (Asia/Tokyo).
JST_OFFSET_HOURS == 9

HOURS_PER_DAY == 24

\* The UTC offset, in hours, that datetime.fromisoformat reads from the
\* suffix of the text.
utc_offset_of(suffix) ==
    CASE suffix = "+00:00" -> 0
      [] suffix = "+09:00" -> 9
      [] suffix = "-05:00" -> 0 - 5

\* datetime.astimezone(JST) of the wall-clock day and hour at a UTC offset.
astimezone_jst(d, h, offset) ==
    LET hours == d * HOURS_PER_DAY + h - offset + JST_OFFSET_HOURS
    IN [t |-> "datetime", day |-> hours \div HOURS_PER_DAY,
                          hour |-> hours % HOURS_PER_DAY]

\* Conversion that keeps the wall-clock date and hour of the text.
to_jst_datetime_naive(iso_str) ==
    [t |-> "datetime", day |-> iso_str.date, hour |-> iso_str.hour]

\* to_jst_datetime: "Z" is replaced by "+00:00"; a text without an offset
\* parses to a naive datetime, which is taken as UTC; the instant is then
\* expressed in JST.
to_jst_datetime(iso_str) ==
    LET suffix == IF iso_str.suffix = "Z" THEN "+00:00" ELSE iso_str.suffix
    IN IF suffix = ""
       THEN astimezone_jst(iso_str.date, iso_str.hour, 0)
       ELSE astimezone_jst(iso_str.date, iso_str.hour, utc_offset_of(suffix))

\* datetime.date()
date_of(dt) == dt.day

\* datetime.strftime("%H:%M")
strftime_HM(dt) ==
    Str(<<ToString(dt.hour \div 10), ToString(dt.hour % 10), ":", "0", "0">>)

---------------------------------------------------------------------------
(* Weather payload *)

\* Truth value of a dict or None: false for None and for {}.
TruthyDict(d) == DOMAIN d # {} /\ d # None

\* payload as initialised at the top of get_weather_payload.
initial_payload(ov) ==
    [weather_text |-> None,
     weather_time |-> None,
     pops |-> <<>>,
     min_temp |-> None,
     max_temp |-> None,
     temp_source_date |-> None,
     overview_text |-> normalize_text(Get(ov, "text", None)),
     report_datetime |-> None]

\* report_dt = forecast[0].get("reportDatetime")
report_step(payload, report) ==
    LET report_dt == Get(report, "reportDatetime", None)
    IN IF Truthy(report_dt)
       THEN [payload EXCEPT !.report_datetime = to_jst_datetime(report_dt)]
       ELSE payload

\* The for loop over the weather series, from position idx (1-based).
RECURSIVE weather_loop(_, _, _, _, _)
weather_loop(payload, idx, time_defines, area_weather, day) ==
    IF idx > Len(time_defines) THEN payload
    ELSE IF idx > Len(Get(area_weather, "weathers", <<>>))
         THEN weather_loop(payload, idx + 1, time_defines, area_weather, day)
    ELSE LET target_dt == to_jst_datetime(time_defines[idx])
         IN IF date_of(target_dt) = day
            THEN [payload EXCEPT
                    !.weather_text = normalize_text(area_weather.weathers[idx]),
                    !.weather_time = target_dt]
            ELSE weather_loop(payload, idx + 1, time_defines, area_weather, day)

\* weather_step without the fall back to position 0.
weather_step_no_fallback(payload, weather_series, day) ==
    IF ~TruthyDict(weather_series) THEN payload
    ELSE LET area_weather == find_area_block(Get(weather_series, "areas", <<>>),
                                             FORECAST_AREA_CODE)
             time_defines == Get(weather_series, "timeDefines", <<>>)
         IN IF ~TruthyDict(area_weather) THEN payload
            ELSE weather_loop(payload, 1, time_defines, area_weather, day)

\* "if weather_series:" block.
weather_step(payload, weather_series, day) ==
    IF ~TruthyDict(weather_series) THEN payload
    ELSE LET area_weather == find_area_block(Get(weather_series, "areas", <<>>),
                                             FORECAST_AREA_CODE)
             time_defines == Get(weather_series, "timeDefines", <<>>)
         IN IF ~TruthyDict(area_weather) THEN payload
            ELSE LET looped == weather_loop(payload, 1, time_defines,
                                            area_weather, day)
                 IN IF looped.weather_text = None
                       /\ Get(area_weather, "weathers", <<>>) # <<>>
                    THEN [looped EXCEPT !.weather_text =
                              normalize_text(area_weather.weathers[1])]
                    ELSE looped

\* pop_loop that skips only null values.
RECURSIVE pop_loop_keep_empty(_, _, _, _, _)
pop_loop_keep_empty(payload, idx, time_defines, pops, day) ==
    IF idx > Len(time_defines) THEN payload
    ELSE IF idx > Len(pops)
         THEN pop_loop_keep_empty(payload, idx + 1, time_defines, pops, day)
    ELSE IF pops[idx] = None
         THEN pop_loop_keep_empty(payload, idx + 1, time_defines, pops, day)
    ELSE LET target_dt == to_jst_datetime(time_defines[idx])
         IN IF date_of(target_dt) = day
            THEN pop_loop_keep_empty(
                    [payload EXCEPT !.pops = Append(@,
                        [label |-> strftime_HM(target_dt),
                         value |-> Str(pops[idx].s \o <<"%">>)])],
                    idx + 1, time_defines, pops, day)
            ELSE pop_loop_keep_empty(payload, idx + 1, time_defines, pops, day)

\* The for loop over the precipitation series, from position idx.
RECURSIVE pop_loop(_, _, _, _, _)
pop_loop(payload, idx, time_defines, pops, day) ==
    IF idx > Len(time_defines) THEN payload
    ELSE IF idx > Len(pops)
         THEN pop_loop(payload, idx + 1, time_defines, pops, day)
    ELSE IF ~Truthy(pops[idx])
         THEN pop_loop(payload, idx + 1, time_defines, pops, day)
    ELSE LET target_dt == to_jst_datetime(time_defines[idx])
         IN IF date_of(target_dt) = day
            THEN pop_loop(
                    [payload EXCEPT !.pops = Append(@,
                        [label |-> strftime_HM(target_dt),
                         value |-> Str(pops[idx].s \o <<"%">>)])],
                    idx + 1, time_defines, pops, day)
            ELSE pop_loop(payload, idx + 1, time_defines, pops, day)

\* "if pop_series:" block.
pop_step(payload, pop_series, day) ==
    IF ~TruthyDict(pop_series) THEN payload
    ELSE LET area_pop == find_area_block(Get(pop_series, "areas", <<>>),
                                         FORECAST_AREA_CODE)
             time_defines == Get(pop_series, "timeDefines", <<>>)
         IN IF ~TruthyDict(area_pop) THEN payload
            ELSE pop_loop(payload, 1, time_defines,
                          Get(area_pop, "pops", <<>>), day)

\* min() and max() of two floats
min(a, b) == IF b.n < a.n THEN b ELSE a

max(a, b) == IF b.n > a.n THEN b ELSE a

\* temp_loop that keeps the first matching sample as the minimum and the
\* last one as the maximum.
RECURSIVE temp_loop_first_last(_, _, _, _, _)
temp_loop_first_last(payload, idx, time_defines, temps, day) ==
    IF idx > Len(time_defines) THEN payload
    ELSE IF idx > Len(temps)
         THEN temp_loop_first_last(payload, idx + 1, time_defines, temps, day)
    ELSE IF ~Truthy(temps[idx])
         THEN temp_loop_first_last(payload, idx + 1, time_defines, temps, day)
    ELSE LET target_dt == to_jst_datetime(time_defines[idx])
         IN IF date_of(target_dt) = day
            THEN LET temp_value == float(temps[idx])
                 IN IF IsRaise(temp_value) THEN temp_value
                    ELSE temp_loop_first_last(
                            [payload EXCEPT
                                !.min_temp = IF @ = None THEN temp_value ELSE @,
                                !.max_temp = temp_value,
                                !.temp_source_date = DateVal(day)],
                            idx + 1, time_defines, temps, day)
            ELSE temp_loop_first_last(payload, idx + 1, time_defines, temps, day)

\* The for loop over the temperature series, from position idx; the result
\* is the payload, or the exception float() raises.
RECURSIVE temp_loop(_, _, _, _, _)
temp_loop(payload, idx, time_defines, temps, day) ==
    IF idx > Len(time_defines) THEN payload
    ELSE IF idx > Len(temps)
         THEN temp_loop(payload, idx + 1, time_defines, temps, day)
    ELSE IF ~Truthy(temps[idx])
         THEN temp_loop(payload, idx + 1, time_defines, temps, day)
    ELSE LET target_dt == to_jst_datetime(time_defines[idx])
         IN IF date_of(target_dt) = day
            THEN LET temp_value == float(temps[idx])
                 IN IF IsRaise(temp_value) THEN temp_value
                    ELSE temp_loop(
                            [payload EXCEPT
                                !.min_temp = IF @ = None THEN temp_value
                                             ELSE min(@, temp_value),
                                !.max_temp = IF @ = None THEN temp_value
                                             ELSE max(@, temp_value),
                                !.temp_source_date = DateVal(day)],
                            idx + 1, time_defines, temps, day)
            ELSE temp_loop(payload, idx + 1, time_defines, temps, day)

\* try: payload[field] = float(value) / except ValueError: pass
try_set_float(payload, field, value) ==
    LET parsed == float(value)
    IN IF ~IsRaise(parsed) THEN [payload EXCEPT ![field] = parsed]
       ELSE IF parsed.exc = "ValueError" THEN payload
       ELSE parsed

\* temp_fallback applied whenever temps is not empty, also after a sample
\* matched today.
temp_fallback_unconditional(payload, time_defines, temps) ==
    IF temps = <<>> THEN payload
    ELSE LET with_min == try_set_float(payload, "min_temp", temps[1])
         IN IF IsRaise(with_min) THEN with_min
            ELSE LET with_max == IF Len(temps) > 1
                                 THEN try_set_float(with_min, "max_temp", temps[2])
                                 ELSE with_min
                 IN IF IsRaise(with_max) THEN with_max
                    ELSE IF time_defines # <<>>
                         THEN [with_max EXCEPT !.temp_source_date =
                                  DateVal(date_of(to_jst_datetime(time_defines[1])))]
                         ELSE with_max

\* "if payload["temp_source_date"] is None and temps:" block.
temp_fallback(payload, time_defines, temps) ==
    IF ~(payload.temp_source_date = None /\ temps # <<>>) THEN payload
    ELSE LET with_min == try_set_float(payload, "min_temp", temps[1])
         IN IF IsRaise(with_min) THEN with_min
            ELSE LET with_max == IF Len(temps) > 1
                                 THEN try_set_float(with_min, "max_temp", temps[2])
                                 ELSE with_min
                 IN IF IsRaise(with_max) THEN with_max
                    ELSE IF time_defines # <<>>
                         THEN [with_max EXCEPT !.temp_source_date =
                                  DateVal(date_of(to_jst_datetime(time_defines[1])))]
                         ELSE with_max

\* "if temp_series:" block.
temp_step(payload, temp_series, day) ==
    IF ~TruthyDict(temp_series) THEN payload
    ELSE LET area_temp == find_area_block(Get(temp_series, "areas", <<>>),
                                          TEMP_AREA_CODE)
             time_defines == Get(temp_series, "timeDefines", <<>>)
         IN IF ~TruthyDict(area_temp) THEN payload
            ELSE LET temps == Get(area_temp, "temps", <<>>)
                     looped == temp_loop(payload, 1, time_defines, temps, day)
                 IN IF IsRaise(looped) THEN looped
                    ELSE temp_fallback(looped, time_defines, temps)

\* time_series[k] if len(time_series) > k else None  (k counted from 0)
series_at(time_series, k) ==
    IF Len(time_series) > k THEN time_series[k + 1] ELSE None

\* get_weather_payload(today), given what fetch_forecast() and
\* fetch_overview() returned: the payload, or the exception raised.
get_weather_payload(fc, ov, day) ==
    LET payload == initial_payload(ov)
    IN IF fc = <<>> THEN payload
       ELSE LET time_series == Get(fc[1], "timeSeries", <<>>)
                reported == report_step(payload, fc[1])
                with_weather == weather_step(reported, series_at(time_series, 0), day)
                with_pops == pop_step(with_weather, series_at(time_series, 1), day)
            IN temp_step(with_pops, series_at(time_series, 2), day)

---------------------------------------------------------------------------
(* Inputs of get_weather_payload *)

\* The days get_weather_payload is asked about: a day on which no timestamp
\* of the inputs falls, and the two days on which they fall.
WeatherDays == {1, 2, 3}

\* Timestamps as the forecast source writes them: with the JST offset, with
\* another offset, with "Z" and without an offset.  In JST they fall on day 2
\* (the first three) and on day 3 (the last three).
TimeStamps ==
    {Iso(2, 3, "+09:00"), Iso(1, 20, "Z"), Iso(2, 2, "-05:00"),
     Iso(3, 0, "+09:00"), Iso(2, 18, ""), Iso(2, 23, "-05:00")}

\* An area block: its area dict and one value array under the given key.
AreaBlock(c, key, values) ==
    [k \in {"area", key} |-> IF k = "area" THEN [code |-> c] ELSE values]

\* A series dict with the blocks of another area before and after the block
\* of the wanted area.
Series(c, key, values, time_defines) ==
    [areas |-> <<AreaBlock(OTHER_AREA_CODE, key, <<Str(<<"9">>)>>),
                 AreaBlock(c, key, values),
                 AreaBlock(c, key, <<Str(<<"8">>)>>)>>,
     timeDefines |-> time_defines]

DefaultWeatherSeries ==
    Series(FORECAST_AREA_CODE, "weathers", <<Str(<<"a">>)>>, <<Iso(2, 3, "+09:00")>>)

DefaultPopSeries ==
    Series(FORECAST_AREA_CODE, "pops", <<Str(<<"3", "0">>)>>, <<Iso(2, 3, "+09:00")>>)

DefaultTempSeries ==
    Series(TEMP_AREA_CODE, "temps", <<Str(<<"7">>)>>, <<Iso(2, 3, "+09:00")>>)

\* The JSON array of the forecast source: one report with three series.
Forecast(weather_series, pop_series, temp_series) ==
    <<[reportDatetime |-> Iso(2, 2, "+09:00"),
       timeSeries |-> <<weather_series, pop_series, temp_series>>]>>

DefaultOverview == [text |-> Str(<<"o">>)]

\* The fetched precipitation series of the model state.
PopSeriesOf(fc) == fc[1].timeSeries[2]

PopValuesOf(fc) == PopSeriesOf(fc).areas[2].pops

TempSeriesOf(fc) == fc[1].timeSeries[3]

TempValuesOf(fc) == TempSeriesOf(fc).areas[2].temps

WeatherSeriesOf(fc) == fc[1].timeSeries[1]

WeatherValuesOf(fc) == WeatherSeriesOf(fc).areas[2].weathers

\* Sequences over S of length at most n.
SeqUpTo(S, n) == UNION {[1..k -> S] : k \in 0..n}

InitOthersForWeather ==
    /\ pc = "start"
    /\ weather = None
    /\ holidays = None /\ info = None
    /\ areas = None /\ code = None /\ found = None
    /\ feed = None /\ limit = None /\ news_items = None
    /\ upstream = None /\ cards = None

CallGetWeatherPayload ==
    /\ pc = "start"
    /\ weather' = get_weather_payload(forecast, overview, today)
    /\ pc' = "done"
    /\ UNCHANGED <<today, forecast, overview, holidayVars, areaVars, newsVars, mainVars>>

NextWeather == CallGetWeatherPayload

---------------------------------------------------------------------------
(* Precipitation probabilities *)

MaxPopTimes == 3

\* Non-empty probability values.
PopValues == {Str(<<"0">>), Str(<<"3", "0">>)}

InitPops ==
    /\ InitOthersForWeather
    /\ today \in WeatherDays
    /\ overview = DefaultOverview
    /\ \E time_defines \in SeqUpTo(TimeStamps, MaxPopTimes) :
           \E values \in SeqUpTo(PopValues, Len(time_defines)) :
               forecast = Forecast(DefaultWeatherSeries,
                                   Series(FORECAST_AREA_CODE, "pops", values, time_defines),
                                   DefaultTempSeries)

SpecPops == InitPops /\ [][NextWeather]_vars

\* The offset from UTC, in hours, that a timestamp text states.
StatedOffset(iso_str) ==
    CASE iso_str.suffix = "Z" -> 0
      [] iso_str.suffix = "" -> 0
      [] iso_str.suffix = "+09:00" -> 9
      [] iso_str.suffix = "-05:00" -> 0 - 5

\* The instant of a timestamp, in hours since day 0 00:00 UTC.
UtcHours(iso_str) == iso_str.date * 24 + iso_str.hour - StatedOffset(iso_str)

\* The instant lies in the calendar day `day` of the JST zone (UTC+9).
OnJstDay(iso_str, day) ==
    /\ day * 24 - 9 <= UtcHours(iso_str)
    /\ UtcHours(iso_str) < (day + 1) * 24 - 9

\* The positions of the precipitation series that have a value and whose
\* timestamp is on today.
PopPositionsToday ==
    {i \in 1..Len(PopValuesOf(forecast)) :
        /\ i <= Len(PopSeriesOf(forecast).timeDefines)
        /\ OnJstDay(PopSeriesOf(forecast).timeDefines[i], today)}

\* C4: with non-empty probability values, pops has one entry for exactly the
\* positions within the value array whose timestamp, converted to JST, is on
\* the target day, in increasing order of position; other positions and
\* timestamps beyond the value array contribute nothing.
C4_PopsAreTodaysValuesInOrder ==
    pc = "done" =>
        /\ ~IsRaise(weather)
        /\ Len(weather.pops) = Cardinality(PopPositionsToday)
        /\ \A i \in PopPositionsToday :
              LET k == Cardinality({j \in PopPositionsToday : j <= i})
              IN /\ weather.pops[k].value.s
                        = PopValuesOf(forecast)[i].s \o <<"%">>
                 /\ weather.pops[k].label
                        = strftime_HM([hour |->
                              (UtcHours(PopSeriesOf(forecast).timeDefines[i]) + 9) % 24])

\* A "Z" timestamp written on the day before today is kept, a timestamp
\* written on today without offset is dropped, and a timestamp on today
\* beyond the end of the value array contributes nothing.
C4_Witness ==
    /\ pc = "done"
    /\ ~IsRaise(weather)
    /\ LET td == PopSeriesOf(forecast).timeDefines
           values == PopValuesOf(forecast)
       IN /\ \E i \in PopPositionsToday : td[i].suffix = "Z" /\ td[i].date # today
          /\ \E i \in 1..Len(values) :
                 td[i].date = today /\ i \notin PopPositionsToday
          /\ \E i \in (Len(values) + 1)..Len(td) : OnJstDay(td[i], today)
          /\ weather.pops # <<>>

---------------------------------------------------------------------------
(* Empty precipitation values *)

MaxPopValues == 4

\* The days whose timestamps the precipitation arrays below are aligned to.
PopDays == {2, 3}

\* Probability values as the source writes them: empty, null and non-empty.
RawPopValues == {Str(<<>>), None, Str(<<"0">>), Str(<<"3", "0">>)}

\* The timestamps that fall on the given day in JST.
TimeStampsOn(day) == {ts \in TimeStamps : OnJstDay(ts, day)}

InitPopsEmpty ==
    /\ InitOthersForWeather
    /\ today \in PopDays
    /\ overview = DefaultOverview
    /\ \E n \in 0..MaxPopValues :
           \E time_defines \in [1..n -> TimeStampsOn(today)] :
               \E values \in [1..n -> RawPopValues] :
                   forecast = Forecast(DefaultWeatherSeries,
                                       Series(FORECAST_AREA_CODE, "pops", values, time_defines),
                                       DefaultTempSeries)

SpecPopsEmpty == InitPopsEmpty /\ [][NextWeather]_vars

\* The positions of the precipitation value array that hold a non-empty
\* string.
NonEmptyPopPositions ==
    {i \in 1..Len(PopValuesOf(forecast)) :
        /\ PopValuesOf(forecast)[i] # None
        /\ PopValuesOf(forecast)[i].s # <<>>}

\* C5: with all timestamps on today, pops has no entry for a position whose
\* value is the empty string or null and one entry, in order, for every
\* position whose value is a non-empty string, the string "0" included;
\* ["", "30", null, "0"] yields the two entries for "30" and "0".
C5_EmptyPopsSkippedZeroKept ==
    pc = "done" =>
        /\ ~IsRaise(weather)
        /\ Len(weather.pops) = Cardinality(NonEmptyPopPositions)
        /\ \A i \in NonEmptyPopPositions :
              LET k == Cardinality({j \in NonEmptyPopPositions : j <= i})
              IN weather.pops[k].value.s = PopValuesOf(forecast)[i].s \o <<"%">>
        /\ PopValuesOf(forecast)
              = <<Str(<<>>), Str(<<"3", "0">>), None, Str(<<"0">>)>>
           => /\ Len(weather.pops) = 2
              /\ weather.pops[1].value = Str(<<"3", "0", "%">>)
              /\ weather.pops[2].value = Str(<<"0", "%">>)

\* The array ["", "30", null, "0"] has been processed.
C5_Witness ==
    /\ pc = "done"
    /\ ~IsRaise(weather)
    /\ PopValuesOf(forecast) = <<Str(<<>>), Str(<<"3", "0">>), None, Str(<<"0">>)>>
    /\ Len(weather.pops) = 2

---------------------------------------------------------------------------
(* Temperatures *)

MaxTempTimes == 3

MaxTemps == 3

\* Temperature values as the source writes them: empty, null and numbers.
RawTempValues == {Str(<<>>), None, Str(<<"-", "3">>), Str(<<"1", "2">>)}

\* Timestamps of the temperature series: two fall on day 2 and one on day 3
\* in JST.
TempTimeStamps == {Iso(2, 0, "+09:00"), Iso(1, 20, "Z"), Iso(2, 18, "")}

InitTemps ==
    /\ InitOthersForWeather
    /\ today \in WeatherDays
    /\ overview = DefaultOverview
    /\ \E time_defines \in SeqUpTo(TempTimeStamps, MaxTempTimes) :
           \E values \in SeqUpTo(RawTempValues, MaxTemps) :
               forecast = Forecast(DefaultWeatherSeries, DefaultPopSeries,
                                   Series(TEMP_AREA_CODE, "temps", values, time_defines))

SpecTemps == InitTemps /\ [][NextWeather]_vars

\* The number a temperature text denotes.
TempNumber(v) ==
    CASE v = Str(<<"-", "3">>) -> 0 - 3
      [] v = Str(<<"1", "2">>) -> 12

\* Parsed value of an entry of the temps array: a float, or None for an
\* entry that holds no number.
ParsedTemp(v) ==
    IF v = None \/ v = Str(<<>>) THEN None ELSE Float(TempNumber(v))

\* The positions of the temperature series whose timestamp is on today.
TempTimesToday(time_defines) ==
    {i \in 1..Len(time_defines) : OnJstDay(time_defines[i], today)}

\* The positions holding a sample for today: a non-empty value whose
\* timestamp is on today.
TempSamplesToday(time_defines, temps) ==
    {i \in TempTimesToday(time_defines) :
        i <= Len(temps) /\ temps[i] # None /\ temps[i] # Str(<<>>)}

\* C6: with the temperature block found and no timestamp of the series on
\* today, min_temp is the parsed temps[0] and, with two or more entries,
\* max_temp the parsed temps[1]; with one entry max_temp stays unset; and
\* the fallback is not applied when a sample matched today.
C6_TemperatureFallback ==
    pc = "done" =>
        LET time_defines == TempSeriesOf(forecast).timeDefines
            temps == TempValuesOf(forecast)
        IN /\ (TempTimesToday(time_defines) = {} /\ Len(temps) >= 2) =>
                  /\ ~IsRaise(weather)
                  /\ weather.min_temp = ParsedTemp(temps[1])
                  /\ weather.max_temp = ParsedTemp(temps[2])
           /\ (TempTimesToday(time_defines) = {} /\ Len(temps) = 1) =>
                  /\ ~IsRaise(weather)
                  /\ weather.min_temp = ParsedTemp(temps[1])
                  /\ weather.max_temp = None
           /\ TempSamplesToday(time_defines, temps) # {} =>
                  /\ ~IsRaise(weather)
                  /\ weather.temp_source_date = DateVal(today)
                  /\ \E i \in TempSamplesToday(time_defines, temps) :
                         weather.min_temp = ParsedTemp(temps[i])

\* The fallback for arrays whose first two entries are not null: the part
\* of the statement above that null entries do not reach.
C6_FallbackWithoutNull ==
    pc = "done" =>
        LET time_defines == TempSeriesOf(forecast).timeDefines
            temps == TempValuesOf(forecast)
        IN (\A i \in 1..Len(temps) : i <= 2 => temps[i] # None) =>
              C6_TemperatureFallback

\* The temps array with time defines and values permuted together by perm
\* (a permutation of the positions that have both).
PermutedTempSeries(perm) ==
    LET time_defines == TempSeriesOf(forecast).timeDefines
        temps == TempValuesOf(forecast)
    IN Series(TEMP_AREA_CODE, "temps",
              [i \in 1..Len(temps) |-> temps[perm[i]]],
              [i \in 1..Len(time_defines) |->
                  IF i <= Len(temps) THEN time_defines[perm[i]]
                  ELSE time_defines[i]])

\* C7: when samples for today exist, min_temp and max_temp are the minimum
\* and the maximum over all of them, and the pair is the same for every
\* permutation of the (timestamp, value) pairs.
C7_MinMaxOverAllSamples ==
    pc = "done" =>
        LET time_defines == TempSeriesOf(forecast).timeDefines
            temps == TempValuesOf(forecast)
            samples == TempSamplesToday(time_defines, temps)
        IN samples # {} =>
              /\ ~IsRaise(weather)
              /\ \E i \in samples :
                    /\ weather.min_temp = Float(TempNumber(temps[i]))
                    /\ \A j \in samples : TempNumber(temps[i]) <= TempNumber(temps[j])
              /\ \E i \in samples :
                    /\ weather.max_temp = Float(TempNumber(temps[i]))
                    /\ \A j \in samples : TempNumber(temps[i]) >= TempNumber(temps[j])
              /\ Len(temps) <= Len(time_defines) =>
                    \A perm \in Permutations(1..Len(temps)) :
                        LET other == get_weather_payload(
                                Forecast(DefaultWeatherSeries, DefaultPopSeries,
                                         PermutedTempSeries(perm)),
                                overview, today)
                        IN /\ ~IsRaise(other)
                           /\ other.min_temp = weather.min_temp
                           /\ other.max_temp = weather.max_temp

\* Three samples for today, the smallest in the middle, so that the minimum
\* is neither the first nor the last sample.
C7_Witness ==
    /\ pc = "done"
    /\ ~IsRaise(weather)
    /\ LET time_defines == TempSeriesOf(forecast).timeDefines
           temps == TempValuesOf(forecast)
       IN /\ Cardinality(TempSamplesToday(time_defines, temps)) = 3
          /\ temps = <<Str(<<"1", "2">>), Str(<<"-", "3">>), Str(<<"1", "2">>)>>
          /\ weather.min_temp = Float(0 - 3)
          /\ weather.max_temp = Float(12)

\* The temperature block of the fetched forecast was found.
TempBlockFound ==
    \E i \in 1..Len(TempSeriesOf(forecast).areas) :
        /\ "area" \in DOMAIN TempSeriesOf(forecast).areas[i]
        /\ "code" \in DOMAIN TempSeriesOf(forecast).areas[i].area
        /\ TempSeriesOf(forecast).areas[i].area.code = TEMP_AREA_CODE

\* temp_source_date is unset only without block, temps or time defines.
UnsetSourceDateHasCause ==
    weather.temp_source_date = None =>
        \/ ~TempBlockFound
        \/ TempValuesOf(forecast) = <<>>
        \/ TempSeriesOf(forecast).timeDefines = <<>>

\* With a sample on today both temperatures are set and ordered.
SamplesTodayGiveOrderedMinMax ==
    TempSamplesToday(TempSeriesOf(forecast).timeDefines, TempValuesOf(forecast)) # {} =>
        /\ weather.min_temp # None
        /\ weather.max_temp # None
        /\ weather.min_temp.n <= weather.max_temp.n

\* C11 as stated: in a returned payload temp_source_date equals today if
\* and only if a non-empty temperature sample had a timestamp on today, and
\* then min_temp <= max_temp are both set; an unset temp_source_date means
\* no block, no temps or no time defines.
C11_Stated_SourceDateTodayIffSampleToday ==
    (pc = "done" /\ ~IsRaise(weather)) =>
        /\ (weather.temp_source_date = DateVal(today))
              <=> (TempSamplesToday(TempSeriesOf(forecast).timeDefines,
                                    TempValuesOf(forecast)) # {})
        /\ SamplesTodayGiveOrderedMinMax
        /\ UnsetSourceDateHasCause

\* No sample matched today, temps is not empty, and the first time define
\* is on today: the fall back dates the temperatures with today.
FallbackDatedToday ==
    LET time_defines == TempSeriesOf(forecast).timeDefines
        temps == TempValuesOf(forecast)
    IN /\ TempSamplesToday(time_defines, temps) = {}
       /\ temps # <<>>
       /\ time_defines # <<>>
       /\ OnJstDay(time_defines[1], today)

\* C11 (amended): in a returned payload temp_source_date equals today if
\* and only if a non-empty sample had a timestamp on today or, no sample
\* having matched, temps is not empty and the first time define is on
\* today; with a sample on today min_temp <= max_temp are both set; an
\* unset temp_source_date means no block, no temps or no time defines.
C11_SourceDateTodayIffSampleOrFallbackToday ==
    (pc = "done" /\ ~IsRaise(weather)) =>
        /\ (weather.temp_source_date = DateVal(today))
              <=> (\/ TempSamplesToday(TempSeriesOf(forecast).timeDefines,
                                       TempValuesOf(forecast)) # {}
                   \/ FallbackDatedToday)
        /\ SamplesTodayGiveOrderedMinMax
        /\ UnsetSourceDateHasCause

\* Two samples on today with different values: the source date is today and
\* min_temp < max_temp.
C11_Witness ==
    /\ pc = "done"
    /\ ~IsRaise(weather)
    /\ Cardinality(TempSamplesToday(TempSeriesOf(forecast).timeDefines,
                                    TempValuesOf(forecast))) >= 2
    /\ weather.temp_source_date = DateVal(today)
    /\ weather.min_temp = Float(0 - 3)
    /\ weather.max_temp = Float(12)

\* The fall back dates the temperatures with today although the value at
\* the first position is empty: min_temp stays unset.
C11_WitnessFallback ==
    /\ pc = "done"
    /\ ~IsRaise(weather)
    /\ FallbackDatedToday
    /\ weather.temp_source_date = DateVal(today)
    /\ weather.min_temp = None
    /\ weather.max_temp = Float(12)

---------------------------------------------------------------------------
(* Weather text *)

MaxWeatherTimes == 3

MaxWeathers == 3

\* Entries of the weathers array: plain text, text with ideographic spaces,
\* the empty string and null.
RawWeatherTexts ==
    {Str(<<"a">>), Str(<<"b", "U3000", "c", "U3000">>), Str(<<>>), None}

\* Timestamps of the weather-text series: two fall on day 2 and two on day 3
\* in JST.
WeatherTimeStamps ==
    {Iso(2, 0, "+09:00"), Iso(1, 20, "Z"), Iso(3, 9, "+09:00"), Iso(2, 18, "")}

InitWeatherText ==
    /\ InitOthersForWeather
    /\ today \in WeatherDays
    /\ overview = DefaultOverview
    /\ \E time_defines \in SeqUpTo(WeatherTimeStamps, MaxWeatherTimes) :
           \E values \in SeqUpTo(RawWeatherTexts, MaxWeathers) :
               forecast = Forecast(Series(FORECAST_AREA_CODE, "weathers", values, time_defines),
                                   DefaultPopSeries, DefaultTempSeries)

SpecWeatherText == InitWeatherText /\ [][NextWeather]_vars

\* The text shown for an entry of the weathers array: ideographic spaces
\* become spaces and the ends are trimmed.
ShownText(v) ==
    CASE v = Str(<<"a">>) -> Str(<<"a">>)
      [] v = Str(<<"b", "U3000", "c", "U3000">>) -> Str(<<"b", " ", "c">>)
      [] v = Str(<<>>) -> Str(<<>>)
      [] v = None -> Str(<<>>)

\* The positions of the weather series whose timestamp is on today.
WeatherTimesToday ==
    {i \in 1..Len(WeatherSeriesOf(forecast).timeDefines) :
        OnJstDay(WeatherSeriesOf(forecast).timeDefines[i], today)}

Least(S) == CHOOSE i \in S : \A j \in S : i <= j

\* C8 as stated: with a non-empty weathers array, weather_text is the entry
\* at the first position whose timestamp is on today, and the entry at
\* position 0 if no timestamp of the series is on today.
C8_Stated_FirstTimestampToday ==
    (pc = "done" /\ WeatherValuesOf(forecast) # <<>>) =>
        IF WeatherTimesToday = {}
        THEN weather.weather_text = ShownText(WeatherValuesOf(forecast)[1])
        ELSE /\ Least(WeatherTimesToday) <= Len(WeatherValuesOf(forecast))
             /\ weather.weather_text
                    = ShownText(WeatherValuesOf(forecast)[Least(WeatherTimesToday)])

\* The positions within the weathers array whose timestamp is on today.
WeatherEntriesToday ==
    {i \in WeatherTimesToday : i <= Len(WeatherValuesOf(forecast))}

\* C8 (amended): with a non-empty weathers array, weather_text is the
\* entry at the first position within the weathers array whose timestamp is
\* on today, and the entry at position 0 if there is no such position.
C8_FirstEntryTodayElseFirstEntry ==
    (pc = "done" /\ WeatherValuesOf(forecast) # <<>>) =>
        /\ ~IsRaise(weather)
        /\ IF WeatherEntriesToday = {}
           THEN weather.weather_text = ShownText(WeatherValuesOf(forecast)[1])
           ELSE weather.weather_text
                    = ShownText(WeatherValuesOf(forecast)[Least(WeatherEntriesToday)])

\* The only timestamp on today is beyond the end of the weathers array, and
\* weather_text is the entry at position 0.
C8_Witness ==
    /\ pc = "done"
    /\ ~IsRaise(weather)
    /\ WeatherValuesOf(forecast) # <<>>
    /\ WeatherTimesToday # {}
    /\ WeatherEntriesToday = {}
    /\ weather.weather_text = Str(<<"b", " ", "c">>)

\* The entry of a later position is taken because its timestamp is the
\* first on today.
C8_WitnessMatch ==
    /\ pc = "done"
    /\ ~IsRaise(weather)
    /\ WeatherEntriesToday # {}
    /\ Least(WeatherEntriesToday) > 1
    /\ weather.weather_text = Str(<<"b", " ", "c">>)
    /\ WeatherValuesOf(forecast)[1] = Str(<<"a">>)

---------------------------------------------------------------------------
(* Payloads with missing parts *)

\* The time defines of the complete series: both on day 2 in JST.
FullTimeDefines == <<Iso(2, 0, "+09:00"), Iso(1, 20, "Z")>>

FullValues(key) ==
    CASE key = "weathers" -> <<Str(<<"a">>), Str(<<"b", "U3000", "c", "U3000">>)>>
      [] key = "pops" -> <<Str(<<"0">>), Str(<<"3", "0">>)>>
      [] key = "temps" -> <<Str(<<"1", "2">>), Str(<<"7">>)>>

SeriesShapes == 1..14

\* A series of the forecast payload in one of its shapes: complete (1), or
\* with one part absent or empty.
SeriesShape(shape, c, key) ==
    LET values == FullValues(key)
        other == AreaBlock(OTHER_AREA_CODE, key, values)
        block(vals) == AreaBlock(c, key, vals)
    IN CASE shape = 1 -> [areas |-> <<other, block(values)>>, timeDefines |-> FullTimeDefines]
         [] shape = 2 -> <<>>
         [] shape = 3 -> [timeDefines |-> FullTimeDefines]
         [] shape = 4 -> [areas |-> <<>>, timeDefines |-> FullTimeDefines]
         [] shape = 5 -> [areas |-> <<other>>, timeDefines |-> FullTimeDefines]
         [] shape = 6 -> [areas |-> <<other, block(values)>>]
         [] shape = 7 -> [areas |-> <<other, block(values)>>, timeDefines |-> <<>>]
         [] shape = 8 -> [areas |-> <<other, [area |-> [code |-> c]]>>,
                          timeDefines |-> FullTimeDefines]
         [] shape = 9 -> [areas |-> <<other, block(<<>>)>>, timeDefines |-> FullTimeDefines]
         [] shape = 10 -> [areas |-> <<other, block(<<Str(<<>>), values[2]>>)>>,
                           timeDefines |-> FullTimeDefines]
         [] shape = 11 -> [areas |-> <<other, block(<<None, values[2]>>)>>,
                           timeDefines |-> FullTimeDefines]
         [] shape = 12 -> [areas |-> <<other, block(<<values[1], None>>)>>,
                           timeDefines |-> FullTimeDefines]
         [] shape = 13 -> [areas |-> <<other, block(<<Str(<<>>), Str(<<>>)>>)>>,
                           timeDefines |-> FullTimeDefines]
         [] shape = 14 -> [areas |-> <<[weathers |-> values], block(<<None>>)>>,
                           timeDefines |-> FullTimeDefines]

FullReportDatetime == Iso(2, 2, "+09:00")

ForecastShapes == 1..6

\* The forecast payload: complete (1), an empty array, a report without
\* reportDatetime, with a null reportDatetime, without timeSeries, or with
\* fewer series than three.
ForecastShape(shape, series) ==
    CASE shape = 1 -> <<[reportDatetime |-> FullReportDatetime, timeSeries |-> series]>>
      [] shape = 2 -> <<>>
      [] shape = 3 -> <<[timeSeries |-> series]>>
      [] shape = 4 -> <<[reportDatetime |-> None, timeSeries |-> series]>>
      [] shape = 5 -> <<[reportDatetime |-> FullReportDatetime]>>
      [] shape = 6 -> <<[reportDatetime |-> FullReportDatetime,
                         timeSeries |-> SubSeq(series, 1, 2)]>>

FullOverview == [text |-> Str(<<"U3000", "o", " ">>)]

OverviewShapes == 1..4

\* The overview payload: complete (1), without text, with a null or an
\* empty text.
OverviewShape(shape) ==
    CASE shape = 1 -> FullOverview
      [] shape = 2 -> <<>>
      [] shape = 3 -> [text |-> None]
      [] shape = 4 -> [text |-> Str(<<>>)]

\* The days asked about: the day of the complete series and the day after.
DegradeDays == {2, 3}

InitDegrade ==
    /\ InitOthersForWeather
    /\ today \in DegradeDays
    /\ \E o \in OverviewShapes : overview = OverviewShape(o)
    /\ \E f \in ForecastShapes, w, p, q \in SeriesShapes :
           forecast = ForecastShape(f,
                          <<SeriesShape(w, FORECAST_AREA_CODE, "weathers"),
                            SeriesShape(p, FORECAST_AREA_CODE, "pops"),
                            SeriesShape(q, TEMP_AREA_CODE, "temps")>>)

SpecDegrade == InitDegrade /\ [][NextWeather]_vars

\* The payload of the complete forecast and overview for today.
CompletePayload ==
    get_weather_payload(
        ForecastShape(1, <<SeriesShape(1, FORECAST_AREA_CODE, "weathers"),
                           SeriesShape(1, FORECAST_AREA_CODE, "pops"),
                           SeriesShape(1, TEMP_AREA_CODE, "temps")>>),
        FullOverview, today)

\* The series at position k (from 1) of the fetched forecast is complete.
SeriesComplete(k, c, key) ==
    /\ forecast # <<>>
    /\ "timeSeries" \in DOMAIN forecast[1]
    /\ Len(forecast[1].timeSeries) >= k
    /\ DOMAIN forecast[1].timeSeries[k] = {"areas", "timeDefines"}
    /\ forecast[1].timeSeries[k] = SeriesShape(1, c, key)

\* Every output field whose own inputs are complete has the value it has
\* in the payload of the complete input.
FieldsOfCompleteInputsAgree ==
    /\ SeriesComplete(1, FORECAST_AREA_CODE, "weathers") =>
          /\ weather.weather_text = CompletePayload.weather_text
          /\ weather.weather_time = CompletePayload.weather_time
    /\ SeriesComplete(2, FORECAST_AREA_CODE, "pops") =>
          weather.pops = CompletePayload.pops
    /\ SeriesComplete(3, TEMP_AREA_CODE, "temps") =>
          /\ weather.min_temp = CompletePayload.min_temp
          /\ weather.max_temp = CompletePayload.max_temp
          /\ weather.temp_source_date = CompletePayload.temp_source_date
    /\ (DOMAIN overview = {"text"} /\ overview = FullOverview) =>
          weather.overview_text = CompletePayload.overview_text
    /\ (forecast # <<>> /\ "reportDatetime" \in DOMAIN forecast[1]
            /\ forecast[1].reportDatetime = FullReportDatetime) =>
          weather.report_datetime = CompletePayload.report_datetime

\* C2: for every payload with parts absent or empty (an individual value
\* being the empty string or null), get_weather_payload returns a payload
\* and each output field whose own inputs are present has the value it
\* would have with the other inputs present.
C2_DegradesFieldByFieldNeverRaises ==
    pc = "done" => (~IsRaise(weather) /\ FieldsOfCompleteInputsAgree)

\* What holds of the code: whenever a payload is returned its fields agree.
DegradesFieldByFieldUnlessRaised ==
    (pc = "done" /\ ~IsRaise(weather)) => FieldsOfCompleteInputsAgree

\* What holds of the code: an exception is raised only from the temperature
\* fall back, by a null among the first two temps entries.
RaisesOnlyOnNullTemp ==
    (pc = "done" /\ IsRaise(weather)) =>
        /\ weather.exc = "TypeError"
        /\ LET area_temp == find_area_block(forecast[1].timeSeries[3].areas,
                                            TEMP_AREA_CODE)
           IN \E i \in 1..Len(area_temp.temps) : i <= 2 /\ area_temp.temps[i] = None

---------------------------------------------------------------------------
(* News *)

\* fetch_news is called with limit=5.
NEWS_LIMIT == 5

MaxFeed == 10

MaxLimit == 6

\* The title, link and date texts of the i-th item of the feed.
TitleOf(i) == Str(<<"n", ToString(i)>>)

LinkOf(i) == Str(<<"l", ToString(i)>>)

PubDateOf(i) == Str(<<"d", ToString(i)>>)

\* The i-th <item> element of a feed, as findtext reads its children:
\* plain (style 1), padded with ideographic and plain spaces (style 2), and
\* without a <pubDate> child (style 3).
FeedItem(i, style) ==
    CASE style = 1 -> [title |-> TitleOf(i), link |-> LinkOf(i), pubDate |-> PubDateOf(i)]
      [] style = 2 -> [title |-> Str(<<"U3000">> \o TitleOf(i).s \o <<" ">>),
                       link |-> Str(<<" ">> \o LinkOf(i).s),
                       pubDate |-> Str(PubDateOf(i).s \o <<"U3000">>)]
      [] style = 3 -> [title |-> TitleOf(i), link |-> LinkOf(i)]

FeedStyles == 1..3

\* The loop of fetch_news that tests "len(items) > limit".
RECURSIVE news_loop_gt(_, _, _, _)
news_loop_gt(items, idx, elements, lim) ==
    IF idx > Len(elements) THEN items
    ELSE LET item == elements[idx]
             added == Append(items,
                         [title |-> normalize_text(Get(item, "title", None)),
                          link |-> normalize_text(Get(item, "link", None)),
                          pub_date |-> normalize_text(Get(item, "pubDate", None))])
         IN IF Len(added) > lim THEN added
            ELSE news_loop_gt(added, idx + 1, elements, lim)

\* The for loop of fetch_news over the <item> elements, from position idx.
RECURSIVE news_loop(_, _, _, _)
news_loop(items, idx, elements, lim) ==
    IF idx > Len(elements) THEN items
    ELSE LET item == elements[idx]
             added == Append(items,
                         [title |-> normalize_text(Get(item, "title", None)),
                          link |-> normalize_text(Get(item, "link", None)),
                          pub_date |-> normalize_text(Get(item, "pubDate", None))])
         IN IF Len(added) >= lim THEN added
            ELSE news_loop(added, idx + 1, elements, lim)

\* fetch_news(limit) on a feed that was fetched and parsed.
fetch_news(elements, lim) == news_loop(<<>>, 1, elements, lim)

InitNews ==
    /\ pc = "start"
    /\ \E n \in 0..MaxFeed, style \in FeedStyles :
           feed = [i \in 1..n |-> FeedItem(i, style)]
    /\ limit \in 0..MaxLimit
    /\ news_items = None
    /\ today = None
    /\ holidays = None /\ info = None
    /\ forecast = None /\ overview = None /\ weather = None
    /\ areas = None /\ code = None /\ found = None
    /\ upstream = None /\ cards = None

CallFetchNews ==
    /\ pc = "start"
    /\ news_items' = fetch_news(feed, limit)
    /\ pc' = "done"
    /\ UNCHANGED <<today, feed, limit, holidayVars, weatherVars, areaVars, mainVars>>

NextNews == CallFetchNews

SpecNews == InitNews /\ [][NextNews]_vars

Min(a, b) == IF a <= b THEN a ELSE b

\* The returned list is the first k items of the feed, in feed order.
IsFirstItemsOfFeed(k) ==
    /\ Len(news_items) = k
    /\ \A i \in 1..k :
          /\ news_items[i].title = TitleOf(i)
          /\ news_items[i].link = LinkOf(i)
          /\ news_items[i].pub_date
                 = IF "pubDate" \in DOMAIN feed[i] THEN PubDateOf(i) ELSE Str(<<>>)

\* C10 as stated: for every feed of n items and every limit L the returned
\* list is the first min(n, L) items of the feed, in feed order.
C10_Stated_FirstMinItemsForEveryLimit ==
    pc = "done" => IsFirstItemsOfFeed(Min(Len(feed), limit))

\* C10 (amended): for every feed of n items and every limit L >= 1 the
\* returned list is the first min(n, L) items of the feed, in feed order;
\* a 10-item feed with L = 5 gives 5 items.
C10_FirstMinItemsForPositiveLimit ==
    (pc = "done" /\ limit >= 1) =>
        /\ IsFirstItemsOfFeed(Min(Len(feed), limit))
        /\ (Len(feed) = 10 /\ limit = NEWS_LIMIT) => Len(news_items) = 5

\* A feed of 10 items was cut to the limit of 5.
C10_Witness ==
    /\ pc = "done"
    /\ Len(feed) = 10
    /\ limit = NEWS_LIMIT
    /\ Len(news_items) = 5
    /\ news_items[5].title = TitleOf(5)

---------------------------------------------------------------------------
(* One render cycle: main() *)

Sources == {"holiday", "forecast", "overview", "news"}

\* How the HTTP fetch of a source ends: with the expected payload, with a
\* transport or HTTP-status failure, with a body that is not JSON/XML, or
\* with a well-formed body of an unexpected structure.
Statuses == {"ok", "transport", "unparsable", "unexpected"}

Return(v) == [t |-> "return", value |-> v]

\* fetch_holidays(): requests.get and raise_for_status raise a
\* RequestException; resp.json() raises requests' JSONDecodeError, which is
\* a RequestException; a JSON array has no .items() (AttributeError).
fetch_holidays(status, data) ==
    CASE status = "ok" -> Return(data)
      [] status = "transport" -> Raise("RequestException")
      [] status = "unparsable" -> Raise("RequestException")
      [] status = "unexpected" -> Raise("AttributeError")

\* fetch_forecast() and fetch_overview(): the parsed JSON is returned as it
\* is, whatever its structure.
fetch_json(status, data) ==
    CASE status = "ok" -> Return(data)
      [] status = "transport" -> Raise("RequestException")
      [] status = "unparsable" -> Raise("RequestException")
      [] status = "unexpected" -> Return(data)

\* fetch_news(limit) with its HTTP fetch: ET.fromstring raises ParseError;
\* a document without channel/item elements gives no items.
fetch_news_http(status, elements, lim) ==
    CASE status = "ok" -> Return(fetch_news(elements, lim))
      [] status = "transport" -> Raise("RequestException")
      [] status = "unparsable" -> Raise("ParseError")
      [] status = "unexpected" -> Return(fetch_news(<<>>, lim))

\* get_weather_payload(today) with its two fetches.  An overview that is a
\* JSON array has no .get (AttributeError, line 322); a forecast that is a
\* JSON object has no key 0 (KeyError, line 327).
get_weather_payload_fetching(status, fc, ov, day) ==
    LET f == fetch_json(status.forecast, fc)
        o == fetch_json(status.overview, ov)
    IN IF f.t = "raise" THEN f
       ELSE IF o.t = "raise" THEN o
       ELSE IF status.overview = "unexpected" THEN Raise("AttributeError")
       ELSE IF status.forecast = "unexpected" THEN Raise("KeyError")
       ELSE get_weather_payload(f.value, o.value, day)

\* The exceptions each section catches around its fetch.
AllExceptions ==
    {"RequestException", "ParseError", "AttributeError", "KeyError",
     "TypeError", "ValueError"}

HolidayCaught == {"RequestException"}

WeatherCaught == AllExceptions

NewsCaught == {"RequestException", "ParseError"}

GARBAGE_SCHEDULE ==
    [w \in 0..6 |->
        CASE w = 1 -> "burnable" [] w = 2 -> "plastic" [] w = 4 -> "cans"
          [] w = 5 -> "burnable" [] OTHER -> "none"]

DAYS_PER_WEEK == 7

\* date.weekday(), day 0 being a Monday.
weekday(d) == d % DAYS_PER_WEEK

Card(section, kind, body) == [section |-> section, kind |-> kind, body |-> body]

\* What the sources hold in a render cycle.
MainHolidays == {[k \in K |-> HolidayName(k)] : K \in {{}, {2}, {1, 3}}}

MainForecasts ==
    {Forecast(DefaultWeatherSeries, DefaultPopSeries, DefaultTempSeries),
     Forecast(DefaultWeatherSeries, DefaultPopSeries,
              Series(TEMP_AREA_CODE, "temps", <<None>>, <<Iso(3, 9, "+09:00")>>))}

MainFeedLengths == {0, 6}

InitMain ==
    /\ pc = "date"
    /\ today \in WeatherDays
    /\ upstream \in [Sources -> Statuses]
    /\ cards = <<>>
    /\ holidays \in MainHolidays
    /\ forecast \in MainForecasts
    /\ overview = DefaultOverview
    /\ \E n \in MainFeedLengths : feed = [i \in 1..n |-> FeedItem(i, 2)]
    /\ limit = NEWS_LIMIT
    /\ info = None /\ weather = None /\ news_items = None
    /\ areas = None /\ code = None /\ found = None

render_date_section ==
    /\ pc = "date"
    /\ cards' = Append(cards, Card("date", "ok", <<today, weekday(today)>>))
    /\ pc' = "holiday"
    /\ UNCHANGED <<today, upstream, holidayVars, weatherVars, areaVars, newsVars>>

render_holiday_section ==
    /\ pc = "holiday"
    /\ LET fetched == fetch_holidays(upstream.holiday, holidays)
       IN IF fetched.t = "raise"
          THEN /\ info' = fetched
               /\ IF fetched.exc \in HolidayCaught
                  THEN /\ cards' = Append(cards, Card("holiday", "error", fetched.exc))
                       /\ pc' = "weather"
                  ELSE /\ cards' = cards
                       /\ pc' = "aborted"
          ELSE /\ info' = get_holiday_status(fetched.value, today)
               /\ cards' = Append(cards, Card("holiday", "ok", info'))
               /\ pc' = "weather"
    /\ UNCHANGED <<today, upstream, holidays, weatherVars, areaVars, newsVars>>

render_weather_section ==
    /\ pc = "weather"
    /\ weather' = get_weather_payload_fetching(upstream, forecast, overview, today)
    /\ IF IsRaise(weather')
       THEN IF weather'.exc \in WeatherCaught
            THEN /\ cards' = Append(cards, Card("weather", "error", weather'.exc))
                 /\ pc' = "garbage"
            ELSE /\ cards' = cards
                 /\ pc' = "aborted"
       ELSE /\ cards' = Append(cards, Card("weather", "ok", weather'))
            /\ pc' = "garbage"
    /\ UNCHANGED <<today, upstream, forecast, overview, holidayVars, areaVars, newsVars>>

render_garbage_section ==
    /\ pc = "garbage"
    /\ cards' = Append(cards, Card("garbage", "ok",
                    <<GARBAGE_SCHEDULE[weekday(today)],
                      GARBAGE_SCHEDULE[weekday(today + 1)]>>))
    /\ pc' = "news"
    /\ UNCHANGED <<today, upstream, holidayVars, weatherVars, areaVars, newsVars>>

render_news_section ==
    /\ pc = "news"
    /\ LET fetched == fetch_news_http(upstream.news, feed, limit)
       IN IF fetched.t = "raise"
          THEN /\ news_items' = fetched
               /\ IF fetched.exc \in NewsCaught
                  THEN /\ cards' = Append(cards, Card("news", "error", fetched.exc))
                       /\ pc' = "done"
                  ELSE /\ cards' = cards
                       /\ pc' = "aborted"
          ELSE /\ news_items' = fetched.value
               /\ cards' = Append(cards,
                              IF fetched.value = <<>>
                              THEN Card("news", "info", <<>>)
                              ELSE Card("news", "ok", fetched.value))
               /\ pc' = "done"
    /\ UNCHANGED <<today, upstream, feed, limit, holidayVars, weatherVars, areaVars>>

NextMain ==
    \/ render_date_section
    \/ render_holiday_section
    \/ render_weather_section
    \/ render_garbage_section
    \/ render_news_section

SpecMain == InitMain /\ [][NextMain]_vars

SectionOrder == <<"date", "holiday", "weather", "garbage", "news">>

\* The section that shows a source.
SectionOf(source) ==
    CASE source = "holiday" -> "holiday"
      [] source = "forecast" -> "weather"
      [] source = "overview" -> "weather"
      [] source = "news" -> "news"

\* Exactly one source fails in this render cycle.
SingleFailure(source) ==
    /\ upstream[source] # "ok"
    /\ \A other \in Sources \ {source} : upstream[other] = "ok"

\* C1: when main() ends, all five sections are rendered in order whatever
\* single source failed and however it failed; the section of a source with
\* a transport failure or an unparsable response shows one error card; no
\* failure escapes a section and aborts the page.
C1_AllSectionsRenderedDespiteFailure ==
    (pc \in {"done", "aborted"} /\ \E source \in Sources : SingleFailure(source)) =>
        /\ pc = "done"
        /\ Len(cards) = 5
        /\ \A i \in 1..5 : cards[i].section = SectionOrder[i]
        /\ \A source \in Sources :
              (SingleFailure(source) /\ upstream[source] \in {"transport", "unparsable"}) =>
                  \A i \in 1..5 :
                      cards[i].section = SectionOf(source) => cards[i].kind = "error"

\* What holds of the code: the page is aborted only by a holiday payload of
\* unexpected structure, in the holiday section, after the date card.
AbortsOnlyOnUnexpectedHolidayPayload ==
    pc = "aborted" =>
        /\ upstream.holiday = "unexpected"
        /\ Len(cards) = 1
        /\ cards[1].section = "date"

====
